---- MODULE Spec2Model ----
(***************************************************************************)
(* Model of notebooks/land_ice_applications.ipynb:                         *)
(*   - min_seg_difference      (segment consistency score)                 *)
(*   - the cross-track slope correction cell (atc_corr)                    *)
(*   - atl06_to_dict           (the ATL06 reader)                          *)
(*   - the batch read loop and the paired-beam read loops that call it     *)
(*                                                                         *)
(* Numbers.  Elevations are integers in units of 1e-3 m, slopes are        *)
(* integers in units of 1e-3 (m/m), distances (x_atc, y_atc, the 20 m      *)
(* endpoint offset) are integers in m, so slope*distance is an elevation   *)
(* in 1e-3 m and the arithmetic of the code is exact.  The floating-point  *)
(* not-a-number is the distinguished value NaN, which every arithmetic     *)
(* operator propagates the way IEEE-754 / numpy does.                      *)
(***************************************************************************)
EXTENDS Integers, Sequences, FiniteSets, TLC

VARIABLES pc,            \* which cell is being run and how far it is
          D6,            \* the table handed to min_seg_difference
          delta_h_seg,   \* the value min_seg_difference returned
          Dl, Dr,        \* the left- and right-beam tables of one file
          ax2_l, ax2_r,  \* the line plotted on ax2 for each beam
          h5files,       \* the files on disk: name -> content
          call,          \* the arguments of a call of atl06_to_dict
          ret,           \* what the last call returned or raised
          ATL06_files,   \* the file names glob found, in its order
          file_i,        \* the place in ATL06_files the batch loop is at
          D_dict,        \* the tables read by the batch loop, by file name
          stdout,        \* what the cells printed
          rgt,           \* the track the paired-beam cell reads
          cycle_i,       \* the place in the list of cycles the cell is at
          globbed,       \* the file names glob found for that cycle
          glob_i,        \* the place in globbed the inner loop is at
          D_2l, D_2r     \* the tables of beams gt2l and gt2r, by file name

numvars == <<D6, delta_h_seg, Dl, Dr, ax2_l, ax2_r>>

readvars == <<h5files, call, ret>>

batchvars == <<ATL06_files, file_i, D_dict, stdout>>

pairvars == <<rgt, cycle_i, globbed, glob_i, D_2l, D_2r>>

vars == <<pc, numvars, readvars, batchvars, pairvars>>

---------------------------------------------------------------------------
(* Bounds of the model *)

\* longest table handed to min_seg_difference
MaxSegs == 3
\* longest left-beam table in the cross-track correction cell
MaxCorrSegs == 2
\* longest dataset of a file handed to atl06_to_dict
MaxReadSegs == 2
\* most files glob finds for the batch loop
MaxFiles == 3

---------------------------------------------------------------------------
(* Floating point with not-a-number *)

\* np.NaN
NaN == -999999999

IsNaN(a) == a = NaN

\* a == b on floats: false as soon as one side is not-a-number
FEq(a, b) == ~IsNaN(a) /\ ~IsNaN(b) /\ a = b

FAdd(a, b) == IF IsNaN(a) \/ IsNaN(b) THEN NaN ELSE a + b

FSub(a, b) == IF IsNaN(a) \/ IsNaN(b) THEN NaN ELSE a - b

FMul(a, b) == IF IsNaN(a) \/ IsNaN(b) THEN NaN ELSE a * b

\* np.abs
FAbs(a) == IF IsNaN(a) THEN NaN ELSE IF a < 0 THEN 0 - a ELSE a

\* np.minimum: a not-a-number on either side is returned
FMinimum(a, b) == IF IsNaN(a) \/ IsNaN(b) THEN NaN ELSE IF a < b THEN a ELSE b

---------------------------------------------------------------------------
(* min_seg_difference *)

\* the 20 of  D6['dh_fit_dx']*20
EndpointOffset == 20

\* h_ep with its two rows taken one for the other
h_ep_Swapped(D) ==
  LET n == Len(D.h_li) IN
  << [i \in 1..n |-> FAdd(D.h_li[i], FMul(D.dh_fit_dx[i], EndpointOffset))],
     [i \in 1..n |-> FSub(D.h_li[i], FMul(D.dh_fit_dx[i], EndpointOffset))] >>

\* h_ep with the endpoints placed by the distance to the next segment in
\* x_atc instead of the fixed 20
h_ep_Spacing(D) ==
  LET n == Len(D.h_li)
      off(i) == IF i < n THEN D.x_atc[i + 1] - D.x_atc[i] ELSE EndpointOffset
  IN << [i \in 1..n |-> FSub(D.h_li[i], FMul(D.dh_fit_dx[i], off(i)))],
        [i \in 1..n |-> FAdd(D.h_li[i], FMul(D.dh_fit_dx[i], off(i)))] >>

\* h_ep: row 1 is h_ep[0, :], row 2 is h_ep[1, :]
h_ep(D) ==
  LET n == Len(D.h_li) IN
  << [i \in 1..n |-> FSub(D.h_li[i], FMul(D.dh_fit_dx[i], EndpointOffset))],
     [i \in 1..n |-> FAdd(D.h_li[i], FMul(D.dh_fit_dx[i], EndpointOffset))] >>

\* the scores starting as the elevations themselves
ZerosLike_Alias(a) == a

\* delta_h_seg=np.zeros_like(D6['h_li'])
ZerosLike(a) == [i \in 1..Len(a) |-> 0]

\* the same pass reading the wrong row of h_ep
BackwardPass_WrongRow(D, d) ==
  [i \in 1..Len(d) |->
     IF i >= 2 THEN FAbs(FSub(D.h_li[i], h_ep(D)[1][i - 1])) ELSE d[i]]

\* delta_h_seg[1:]=np.abs(D6['h_li'][1:]-h_ep[1, :-1])
BackwardPass(D, d) ==
  [i \in 1..Len(d) |->
     IF i >= 2 THEN FAbs(FSub(D.h_li[i], h_ep(D)[2][i - 1])) ELSE d[i]]

\* delta_h_seg[:-1]=np.minimum(delta_h_seg[:-1], np.abs(D6['h_li'][:-1]-h_ep[0, 1:]))
ForwardPass(D, d) ==
  [i \in 1..Len(d) |->
     IF i <= Len(d) - 1
     THEN FMinimum(d[i], FAbs(FSub(D.h_li[i], h_ep(D)[1][i + 1])))
     ELSE d[i]]

min_seg_difference(D) == ForwardPass(D, BackwardPass(D, ZerosLike(D.h_li)))

---------------------------------------------------------------------------
(* The tables the scorer is run on *)

\* elevations (1e-3 m) and along-track slopes (1e-3) a segment can carry
HVals == {NaN, 100000, 100200, 100500}
SVals == {NaN, 0, 10}

\* x_atc of a pass: 20 m postings, with or without a data gap after the
\* first segment
XLayouts == {0, 200}

XAtc(n, gap) == [i \in 1..n |-> IF i = 1 THEN 0 ELSE 20 * (i - 1) + gap]

\* D is a table of n segments drawn from the values above
IsScoreTable(D) ==
  \E n \in 0..MaxSegs :
    \E h \in [1..n -> HVals], s \in [1..n -> SVals], g \in XLayouts :
      D = [h_li |-> h, dh_fit_dx |-> s, x_atc |-> XAtc(n, g)]

EmptyTable == [h_li |-> <<>>]

\* no file is on disk and no read is under way
NoBatch == ATL06_files = <<>> /\ file_i = 0 /\ D_dict = <<>> /\ stdout = <<>>

\* the paired-beam cell has not been run
NoPair ==
  /\ rgt = <<>> /\ cycle_i = 0 /\ globbed = <<>> /\ glob_i = 0
  /\ D_2l = <<>> /\ D_2r = <<>>

NoReader == h5files = <<>> /\ call = <<>> /\ ret = <<>> /\ NoBatch /\ NoPair

InitScore ==
  /\ pc = "score"
  /\ IsScoreTable(D6)
  /\ delta_h_seg = <<>>
  /\ Dl = EmptyTable /\ Dr = EmptyTable
  /\ ax2_l = <<>> /\ ax2_r = <<>>
  /\ NoReader

\* the call with the scores written into the column h_li of the table
CallMinSegDifference_InPlace ==
  /\ pc = "score"
  /\ delta_h_seg' = min_seg_difference(D6)
  /\ D6' = [D6 EXCEPT !.h_li = delta_h_seg']
  /\ pc' = "scored"
  /\ UNCHANGED <<Dl, Dr, ax2_l, ax2_r, readvars, batchvars, pairvars>>

\* delta_h_seg=min_seg_difference(D6)
CallMinSegDifference ==
  /\ pc = "score"
  /\ delta_h_seg' = min_seg_difference(D6)
  /\ pc' = "scored"
  /\ UNCHANGED <<D6, Dl, Dr, ax2_l, ax2_r, readvars, batchvars, pairvars>>

NextScore == CallMinSegDifference

SpecScore == InitScore /\ [][NextScore]_vars

---------------------------------------------------------------------------
(* The cross-track slope correction cell *)

\* a[mask] for a boolean mask of the same length
RECURSIVE BoolIndex(_, _)
BoolIndex(a, mask) ==
  IF Len(a) = 0 THEN <<>>
  ELSE (IF Head(mask) THEN <<Head(a)>> ELSE <<>>) \o BoolIndex(Tail(a), Tail(mask))

\* elementwise a - b and a * b of two arrays of the same length
VSub(a, b) == [i \in 1..Len(a) |-> FSub(a[i], b[i])]

VMul(a, b) == [i \in 1..Len(a) |-> FMul(a[i], b[i])]

\* good=Dl['atl06_quality_summary']==0
GoodMask(D) ==
  [i \in 1..Len(D.atl06_quality_summary) |-> FEq(D.atl06_quality_summary[i], 0)]

\* the correction with a not-a-number product counted as no correction
atc_corr_NaNAsZero(D) ==
  [i \in 1..Len(D.y_atc) |->
     IF IsNaN(FMul(D.y_atc[i], D.dh_fit_dy[i])) THEN 0
     ELSE FMul(D.y_atc[i], D.dh_fit_dy[i])]

\* the correction with the offset added to the slope
atc_corr_Sum(D) == [i \in 1..Len(D.y_atc) |-> FAdd(D.y_atc[i], D.dh_fit_dy[i])]

\* atc_corr=Dl['y_atc']*Dl['dh_fit_dy']
atc_corr(D) == VMul(D.y_atc, D.dh_fit_dy)

\* the line with the correction added instead of subtracted
CorrectedLine_Added(D) ==
  [x |-> BoolIndex(D.x_atc, GoodMask(D)),
   y |-> [i \in 1..Len(BoolIndex(D.h_li, GoodMask(D))) |->
            FAdd(BoolIndex(D.h_li, GoodMask(D))[i],
                 BoolIndex(atc_corr(D), GoodMask(D))[i])]]

\* ax2.plot(Dl['x_atc'][good], Dl['h_li'][good]-atc_corr[good], ...)
CorrectedLine(D) ==
  [x |-> BoolIndex(D.x_atc, GoodMask(D)),
   y |-> VSub(BoolIndex(D.h_li, GoodMask(D)), BoolIndex(atc_corr(D), GoodMask(D)))]

\* elevations (1e-3 m), across-track offsets (m), across-track slopes (1e-3)
\* and quality flags a segment of a beam can carry
CorrHVals == {NaN, 100000, 200000}
YVals == {NaN, 0, 50}
DyVals == {NaN, 2}
QVals == {NaN, 0, 1}

BeamTable(n, h, y, dy, q) ==
  [h_li |-> h, y_atc |-> y, dh_fit_dy |-> dy, atl06_quality_summary |-> q,
   x_atc |-> XAtc(n, 0)]

\* Dl is a table of n segments drawn from the values above
IsLeftTable(D) ==
  \E n \in 0..MaxCorrSegs :
    \E h \in [1..n -> CorrHVals], y \in [1..n -> YVals],
       dy \in [1..n -> DyVals], q \in [1..n -> QVals] :
      D = BeamTable(n, h, y, dy, q)

RightTables ==
  { BeamTable(1, <<200000>>, <<50>>, <<2>>, <<0>>),
    BeamTable(2, <<100000, 200000>>, <<0, 0>>, <<NaN, 2>>, <<0, 0>>),
    BeamTable(2, <<NaN, 100000>>, <<50, NaN>>, <<2, 2>>, <<1, 0>>) }

InitCorr ==
  /\ pc = "correct"
  /\ IsLeftTable(Dl)
  /\ Dr \in RightTables
  /\ ax2_l = <<>> /\ ax2_r = <<>>
  /\ D6 = EmptyTable
  /\ delta_h_seg = <<>>
  /\ NoReader

\* one pass of the body of  for filename, Dl in D_2l.items():
CorrectCell ==
  /\ pc = "correct"
  /\ ax2_l' = CorrectedLine(Dl)
  /\ ax2_r' = CorrectedLine(Dr)
  /\ pc' = "corrected"
  /\ UNCHANGED <<D6, delta_h_seg, Dl, Dr, readvars, batchvars, pairvars>>

NextCorr == CorrectCell

SpecCorr == InitCorr /\ [][NextCorr]_vars

---------------------------------------------------------------------------
(* File names.  A name is the sequence of its characters. *)

\* Python's None, and a value that is not None: an optional value is a
\* sequence of at most one element
None == <<>>

Some(v) == <<v>>

Digits == {"0", "1", "2", "3", "4", "5", "6", "7", "8", "9"}

DigitVal(c) ==
  CASE c = "0" -> 0 [] c = "1" -> 1 [] c = "2" -> 2 [] c = "3" -> 3
    [] c = "4" -> 4 [] c = "5" -> 5 [] c = "6" -> 6 [] c = "7" -> 7
    [] c = "8" -> 8 [] c = "9" -> 9

\* int(s) of a string of decimal digits
RECURSIVE PyInt(_)
PyInt(s) ==
  IF Len(s) = 0 THEN 0
  ELSE 10 * PyInt(SubSeq(s, 1, Len(s) - 1)) + DigitVal(s[Len(s)])

\* s holds the literal lit at position p
Lit(s, p, lit) ==
  p + Len(lit) - 1 <= Len(s) /\ SubSeq(s, p, p + Len(lit) - 1) = lit

\* s holds k digits at position p
DigitsAt(s, p, k) ==
  p + k - 1 <= Len(s) /\ \A j \in p..(p + k - 1) : s[j] \in Digits

\* the last position of the longest run of digits of s that starts at p
\* (p - 1 when s has no digit at p): what the greedy \d+ takes
RECURSIVE DigitRunEnd(_, _)
DigitRunEnd(s, p) ==
  IF p <= Len(s) /\ s[p] \in Digits THEN DigitRunEnd(s, p + 1) ELSE p - 1

\* the match of
\*   ATL06_(?P<date>\d+)_(?P<rgt>\d\d\d\d)(?P<cycle>\d\d)(?P<region>\d\d)_(?P<release>\d\d\d)_(?P<version>\d\d).h5
\* that starts at position p of s, or None.  \d+ must be followed by "_",
\* which is no digit, so only the whole run of digits can match it.
MatchAt(s, p) ==
  LET e == DigitRunEnd(s, p + 6)
      r == e + 2
  IN IF /\ Lit(s, p, <<"A", "T", "L", "0", "6", "_">>)
        /\ e >= p + 6
        /\ Lit(s, e + 1, <<"_">>)
        /\ DigitsAt(s, r, 8)
        /\ Lit(s, r + 8, <<"_">>)
        /\ DigitsAt(s, r + 9, 3)
        /\ Lit(s, r + 12, <<"_">>)
        /\ DigitsAt(s, r + 13, 2)
        /\ r + 15 <= Len(s)
        /\ Lit(s, r + 16, <<"h", "5">>)
     THEN Some([date |-> SubSeq(s, p + 6, e),
                rgt |-> SubSeq(s, r, r + 3),
                cycle |-> SubSeq(s, r + 4, r + 5),
                region |-> SubSeq(s, r + 6, r + 7),
                release |-> SubSeq(s, r + 9, r + 11),
                version |-> SubSeq(s, r + 13, r + 14)])
     ELSE None

\* file_re.search(filename): the leftmost match, or None
file_re_search(s) ==
  LET starts == { p \in 1..Len(s) : MatchAt(s, p) # None }
  IN IF starts = {} THEN None
     ELSE MatchAt(s, CHOOSE p \in starts : \A o \in starts : p <= o)

---------------------------------------------------------------------------
(* atl06_to_dict *)

\* the default field_dict: an ordered list of (group, datasets)
DefaultFieldDict ==
  << <<None, <<"latitude", "longitude", "h_li", "atl06_quality_summary">> >>,
     <<Some("ground_track"), <<"x_atc", "y_atc">> >>,
     <<Some("fit_statistics"), <<"dh_fit_dx", "dh_fit_dy">> >> >>

\* the (group, dataset) pairs in the order the two loops visit them
RECURSIVE FieldList(_)
FieldList(field_dict) ==
  IF Len(field_dict) = 0 THEN <<>>
  ELSE [k \in 1..Len(field_dict[1][2]) |-> <<field_dict[1][1], field_dict[1][2][k]>>]
         \o FieldList(Tail(field_dict))

\* ds_name: the path of a dataset, as the list of its components
DsName(beam, key, ds) ==
  IF key # None THEN <<beam, "land_ice_segments", key[1], ds>>
  ELSE <<beam, "land_ice_segments", ds>>

\* slice(start, stop, step)
Slice(start, stop, step) == [start |-> start, stop |-> stop, step |-> step]

Max(a, b) == IF a > b THEN a ELSE b


\* slice.indices(n) for a positive step: where the slice starts and stops
SliceBound(v, n, default) ==
  IF v = None THEN default
  ELSE IF v[1] < 0 THEN Max(v[1] + n, 0)
  ELSE IF v[1] > n THEN n ELSE v[1]

\* a[p], a[p + step], ... while the (0-based) position is below stop
RECURSIVE TakeFrom(_, _, _, _)
TakeFrom(a, p, stop, step) ==
  IF p >= stop THEN <<>>
  ELSE <<a[p + 1]>> \o TakeFrom(a, p + step, stop, step)

\* a[index] for a slice
PySlice(a, index) ==
  TakeFrom(a, SliceBound(index.start, Len(a), 0),
           SliceBound(index.stop, Len(a), Len(a)), index.step)

\* the read that takes an unset index for the slice [:-1]
ReadRaw_DropLast(dset, index) ==
  IF index # None THEN PySlice(dset.data, index[1])
  ELSE PySlice(dset.data, Slice(None, Some(0 - 1), 1))

\* np.array(h5f[ds_name][index]) or np.array(h5f[ds_name])
ReadRaw(dset, index) ==
  IF index # None THEN PySlice(dset.data, index[1]) ELSE dset.data

\* the column with the fill-flagged entries left as they are in the file
FillToNaN_Kept(dset, raw) == [dtype |-> "float64", data |-> raw]

\* the fill-flagged entries replaced in a column left in its raw type
FillToNaN_NoCast(dset, raw) ==
  LET bad_vals == [i \in 1..Len(raw) |-> FEq(raw[i], dset.attrs["_FillValue"])]
  IN [dtype |-> dset.dtype,
      data |-> [i \in 1..Len(raw) |-> IF bad_vals[i] THEN NaN ELSE raw[i]]]

\* bad_vals=D[ds]==fill; D[ds]=D[ds].astype(float); D[ds][bad_vals]=np.NaN
FillToNaN(dset, raw) ==
  LET bad_vals == [i \in 1..Len(raw) |-> FEq(raw[i], dset.attrs["_FillValue"])]
  IN [dtype |-> "float64",
      data |-> [i \in 1..Len(raw) |-> IF bad_vals[i] THEN NaN ELSE raw[i]]]

\* the column D[ds] read from one dataset
ReadColumn(dset, index) ==
  IF "_FillValue" \in DOMAIN dset.attrs
  THEN FillToNaN(dset, ReadRaw(dset, index))
  ELSE [dtype |-> dset.dtype, data |-> ReadRaw(dset, index)]

\* D[k]=v
Put(D, k, v) == (k :> v) @@ D

\* the reader going on to the next dataset when one is absent
RECURSIVE ReadFields_SkipAbsent(_, _, _, _, _)
ReadFields_SkipAbsent(h5f, beam, flds, index, D) ==
  IF Len(flds) = 0 THEN [exc |-> None, D |-> D]
  ELSE LET ds_name == DsName(beam, flds[1][1], flds[1][2]) IN
       IF ds_name \notin DOMAIN h5f
       THEN ReadFields_SkipAbsent(h5f, beam, Tail(flds), index, D)
       ELSE ReadFields_SkipAbsent(h5f, beam, Tail(flds), index,
                                  Put(D, flds[1][2], ReadColumn(h5f[ds_name], index)))

\* the two for loops over field_dict: h5f[ds_name] raises KeyError for a
\* path the file does not hold
RECURSIVE ReadFields(_, _, _, _, _)
ReadFields(h5f, beam, flds, index, D) ==
  IF Len(flds) = 0 THEN [exc |-> None, D |-> D]
  ELSE LET ds_name == DsName(beam, flds[1][1], flds[1][2]) IN
       IF ds_name \notin DOMAIN h5f
       THEN [exc |-> Some("KeyError"), D |-> D]
       ELSE ReadFields(h5f, beam, Tail(flds), index,
                       Put(D, flds[1][2], ReadColumn(h5f[ds_name], index)))

\* pyproj.proj.Proj(epsg)(lon, lat): the projection is a function of the
\* code and of the two coordinates, left uninterpreted
Proj(epsg, lon, lat) ==
  << [i \in 1..Len(lon) |-> <<"x", epsg, lon[i], lat[i]>>],
     [i \in 1..Len(lon) |-> <<"y", epsg, lon[i], lat[i]>>] >>

\* the projection called with latitude first
AddXY_Swapped(D, epsg) ==
  IF epsg = None THEN [exc |-> None, D |-> D]
  ELSE IF ~({"longitude", "latitude"} \subseteq DOMAIN D)
  THEN [exc |-> Some("KeyError"), D |-> D]
  ELSE LET xy == Proj(epsg[1], D["latitude"].data, D["longitude"].data) IN
       [exc |-> None,
        D |-> Put(Put(D, "x", [dtype |-> "float64", data |-> xy[1]]),
                  "y", [dtype |-> "float64", data |-> xy[2]])]

\* if epsg is not None: ... D['x']=..., D['y']=...
AddXY(D, epsg) ==
  IF epsg = None THEN [exc |-> None, D |-> D]
  ELSE IF ~({"longitude", "latitude"} \subseteq DOMAIN D)
  THEN [exc |-> Some("KeyError"), D |-> D]
  ELSE LET xy == Proj(epsg[1], D["longitude"].data, D["latitude"].data) IN
       [exc |-> None,
        D |-> Put(Put(D, "x", [dtype |-> "float64", data |-> xy[1]]),
                  "y", [dtype |-> "float64", data |-> xy[2]])]

\* the track taken from the cycle group and the cycle from the track group
AddProvenance_Swapped(D, filename, beam) ==
  LET temp == file_re_search(filename) IN
  IF temp = None THEN [exc |-> Some("TypeError"), D |-> D]
  ELSE [exc |-> None,
        D |-> Put(Put(Put(D, "rgt", PyInt(temp[1].cycle)), "cycle", PyInt(temp[1].rgt)),
                  "beam", beam)]

\* a name that does not match taken for a table without provenance
AddProvenance_Silent(D, filename, beam) ==
  LET temp == file_re_search(filename) IN
  IF temp = None THEN [exc |-> None, D |-> D]
  ELSE [exc |-> None,
        D |-> Put(Put(Put(D, "rgt", PyInt(temp[1].rgt)), "cycle", PyInt(temp[1].cycle)),
                  "beam", beam)]

\* temp=file_re.search(filename); D['rgt']=int(temp['rgt']); ...
\* temp['rgt'] raises TypeError when temp is None
AddProvenance(D, filename, beam) ==
  LET temp == file_re_search(filename) IN
  IF temp = None THEN [exc |-> Some("TypeError"), D |-> D]
  ELSE [exc |-> None,
        D |-> Put(Put(Put(D, "rgt", PyInt(temp[1].rgt)), "cycle", PyInt(temp[1].cycle)),
                  "beam", beam)]

\* what a call that raised leaves to its caller: the exception and no table
Raised(e) == [exc |-> e, D |-> None]

\* return D
Returned(D) == [exc |-> None, D |-> Some(D)]

\* atl06_to_dict(filename, beam, field_dict, index, epsg) on the files of fs
atl06_to_dict(fs, filename, beam, field_dict, index, epsg) ==
  IF ~fs[filename].hdf5 THEN Raised(Some("OSError"))
  ELSE
    LET fd == IF field_dict = None THEN DefaultFieldDict ELSE field_dict[1]
        r1 == ReadFields(fs[filename].ds, beam, FieldList(fd), index, <<>>)
        r2 == AddXY(r1.D, epsg)
        r3 == AddProvenance(r2.D, filename, beam)
    IN IF r1.exc # None THEN Raised(r1.exc)
       ELSE IF r2.exc # None THEN Raised(r2.exc)
       ELSE IF r3.exc # None THEN Raised(r3.exc)
       ELSE Returned(r3.D)

---------------------------------------------------------------------------
(* The files atl06_to_dict is run on *)

\* the _FillValue attribute of the float datasets (standing for
\* 3.4028235e38) and of the 8-bit integer datasets of a file
FloatFill == 340282
ByteFill == 127

Dataset(data, dtype, attrs) == [data |-> data, dtype |-> dtype, attrs |-> attrs]

FillAttr(v) == ("_FillValue" :> v)

NoAttrs == <<>>

Restrict(f, S) == [x \in S |-> f[x]]

\* the datasets of one beam of n segments: h and q are the raw h_li and
\* atl06_quality_summary, hFill and qFill say whether each declares a
\* _FillValue; the slope dh_fit_dy of the first segment is fill-flagged
BeamDatasets(beam, n, h, q, hFill, qFill) ==
  (DsName(beam, None, "latitude") :>
     Dataset([i \in 1..n |-> 0 - 75000 - i], "float64", FillAttr(FloatFill))) @@
  (DsName(beam, None, "longitude") :>
     Dataset([i \in 1..n |-> 0 - 100000 + i], "float64", FillAttr(FloatFill))) @@
  (DsName(beam, None, "h_li") :>
     Dataset(h, "float32", IF hFill THEN FillAttr(FloatFill) ELSE NoAttrs)) @@
  (DsName(beam, None, "atl06_quality_summary") :>
     Dataset(q, "int8", IF qFill THEN FillAttr(ByteFill) ELSE NoAttrs)) @@
  (DsName(beam, Some("ground_track"), "x_atc") :>
     Dataset(XAtc(n, 0), "float64", FillAttr(FloatFill))) @@
  (DsName(beam, Some("ground_track"), "y_atc") :>
     Dataset([i \in 1..n |-> 50], "float32", FillAttr(FloatFill))) @@
  (DsName(beam, Some("fit_statistics"), "dh_fit_dx") :>
     Dataset([i \in 1..n |-> 10], "float32", FillAttr(FloatFill))) @@
  (DsName(beam, Some("fit_statistics"), "dh_fit_dy") :>
     Dataset([i \in 1..n |-> IF i = 1 THEN FloatFill ELSE 2], "float32",
             FillAttr(FloatFill)))

\* what a file can lack of a beam: nothing, the dataset h_li, the group
\* fit_statistics, the whole beam
AbsentKinds == {"nothing", "h_li", "fit_statistics", "beam"}

Absent(beam, kind) ==
  CASE kind = "nothing" -> {}
    [] kind = "h_li" -> {DsName(beam, None, "h_li")}
    [] kind = "fit_statistics" ->
         {DsName(beam, Some("fit_statistics"), "dh_fit_dx"),
          DsName(beam, Some("fit_statistics"), "dh_fit_dy")}
    [] kind = "beam" -> DOMAIN BeamDatasets(beam, 0, <<>>, <<>>, TRUE, TRUE)

\* an HDF5 file holding the datasets ds, and a file that is not HDF5
H5File(ds) == [hdf5 |-> TRUE, ds |-> ds]

NotHDF5 == [hdf5 |-> FALSE, ds |-> <<>>]

\* ATL06_<date>_<rgt><cycle><region>_<release>_<version>.h5
GranuleName(date, track, cycle, region, release, version) ==
  <<"A", "T", "L", "0", "6", "_">> \o date \o <<"_">> \o track \o cycle \o region
    \o <<"_">> \o release \o <<"_">> \o version \o <<".", "h", "5">>

\* ATL06_2019_00270311_003_01.h5
Name002703 ==
  GranuleName(<<"2", "0", "1", "9">>, <<"0", "0", "2", "7">>, <<"0", "3">>,
              <<"1", "1">>, <<"0", "0", "3">>, <<"0", "1">>)

\* ATL06_tmp.h5
NameTmp == <<"A", "T", "L", "0", "6", "_", "t", "m", "p", ".", "h", "5">>

\* ATL06_2019_04690511_003_01.h5
Name046905 ==
  GranuleName(<<"2", "0", "1", "9">>, <<"0", "4", "6", "9">>, <<"0", "5">>,
              <<"1", "1">>, <<"0", "0", "3">>, <<"0", "1">>)

\* the (filename, beam) a call asks for
ReadTargets ==
  {<<Name002703, "/gt2l">>, <<Name046905, "/gt2r">>, <<NameTmp, "/gt2l">>}

\* raw h_li and atl06_quality_summary values of a file
RawHVals == {100000, 200000, FloatFill}
RawQVals == {0, ByteFill}

\* {None: ['h_li']}
HOnlyFieldDict == << <<None, <<"h_li">> >> >>

\* {None: ['latitude', 'longitude', 'h_li'], 'ground_track': ['x_atc']}
CoordFieldDict ==
  << <<None, <<"latitude", "longitude", "h_li">> >>,
     <<Some("ground_track"), <<"x_atc">> >> >>

FieldDictVals == {None, Some(HOnlyFieldDict), Some(CoordFieldDict)}

\* index=None, index=slice(0, -1, 25), index=slice(1, None, 1)
IndexVals ==
  {None, Some(Slice(Some(0), Some(0 - 1), 25)), Some(Slice(Some(1), None, 1))}

EpsgVals == {None, Some(3031)}

NoNumerics ==
  /\ D6 = EmptyTable /\ delta_h_seg = <<>>
  /\ Dl = EmptyTable /\ Dr = EmptyTable
  /\ ax2_l = <<>> /\ ax2_r = <<>>

InitRead ==
  /\ pc = "read"
  /\ NoNumerics
  /\ NoBatch /\ NoPair
  /\ ret = <<>>
  /\ \E target \in ReadTargets, field_dict \in FieldDictVals,
        index \in IndexVals, epsg \in EpsgVals :
       LET name == target[1]
           beam == target[2]
       IN
       /\ call = [filename |-> name, beam |-> beam, field_dict |-> field_dict,
                  index |-> index, epsg |-> epsg]
       /\ \/ h5files = (name :> NotHDF5)
          \/ \E n \in 0..MaxReadSegs :
               \E h \in [1..n -> RawHVals], q \in [1..n -> RawQVals],
                  hFill \in BOOLEAN, qFill \in BOOLEAN, kind \in AbsentKinds :
                 LET all == BeamDatasets(beam, n, h, q, hFill, qFill) IN
                 h5files =
                   (name :> H5File(Restrict(all, DOMAIN all \ Absent(beam, kind))))

\* D=atl06_to_dict(filename, beam, field_dict, index, epsg)
CallAtl06ToDict ==
  /\ pc = "read"
  /\ ret' = atl06_to_dict(h5files, call.filename, call.beam, call.field_dict,
                          call.index, call.epsg)
  /\ pc' = "returned"
  /\ UNCHANGED <<numvars, h5files, call, batchvars, pairvars>>

NextRead == CallAtl06ToDict

SpecRead == InitRead /\ [][NextRead]_vars

---------------------------------------------------------------------------
(* The batch read loop over ATL06_files *)

\* ATL06_2019_00270411_003_01.h5, ATL06_2019_00270611_003_01.h5,
\* ATL06_2019_04690311_003_01.h5, ATL06_2019_04690411_003_01.h5,
\* ATL06_2019_04690611_003_01.h5
Name002704 ==
  GranuleName(<<"2", "0", "1", "9">>, <<"0", "0", "2", "7">>, <<"0", "4">>,
              <<"1", "1">>, <<"0", "0", "3">>, <<"0", "1">>)

Name002706 ==
  GranuleName(<<"2", "0", "1", "9">>, <<"0", "0", "2", "7">>, <<"0", "6">>,
              <<"1", "1">>, <<"0", "0", "3">>, <<"0", "1">>)

Name046903 ==
  GranuleName(<<"2", "0", "1", "9">>, <<"0", "4", "6", "9">>, <<"0", "3">>,
              <<"1", "1">>, <<"0", "0", "3">>, <<"0", "1">>)

Name046904 ==
  GranuleName(<<"2", "0", "1", "9">>, <<"0", "4", "6", "9">>, <<"0", "4">>,
              <<"1", "1">>, <<"0", "0", "3">>, <<"0", "1">>)

Name046906 ==
  GranuleName(<<"2", "0", "1", "9">>, <<"0", "4", "6", "9">>, <<"0", "6">>,
              <<"1", "1">>, <<"0", "0", "3">>, <<"0", "1">>)

\* a file holding both beams of the centre pair, less what it lacks of each
PairFile(lacks_l, lacks_r) ==
  LET l == BeamDatasets("/gt2l", 2, <<100000, FloatFill>>, <<0, 1>>, TRUE, TRUE)
      r == BeamDatasets("/gt2r", 2, <<200000, 100000>>, <<0, 0>>, TRUE, TRUE)
  IN H5File(Restrict(l, DOMAIN l \ Absent("/gt2l", lacks_l)) @@
            Restrict(r, DOMAIN r \ Absent("/gt2r", lacks_r)))

\* a file holding both beams of the centre pair, each of 26 segments with
\* elevations rising by 0.1 from segment to segment
LongPairFile ==
  LET n == 26
      l == BeamDatasets("/gt2l", n, [i \in 1..n |-> 100000 + 100 * i],
                        [i \in 1..n |-> 0], TRUE, TRUE)
      r == BeamDatasets("/gt2r", n, [i \in 1..n |-> 200000 + 100 * i],
                        [i \in 1..n |-> 0], TRUE, TRUE)
  IN H5File(l @@ r)

\* the files the data directory can hold: two complete granules of two
\* segments and one of 26, one without the beam gt2l, one without the group
\* fit_statistics of gt2l, one without the dataset h_li of gt2l, one that is
\* no HDF5 file, and a complete one whose name is not a granule name
Directory ==
  (Name002703 :> PairFile("nothing", "nothing")) @@
  (Name046903 :> PairFile("nothing", "nothing")) @@
  (Name046904 :> LongPairFile) @@
  (Name002704 :> PairFile("beam", "nothing")) @@
  (Name046905 :> PairFile("fit_statistics", "nothing")) @@
  (Name046906 :> PairFile("h_li", "nothing")) @@
  (Name002706 :> NotHDF5) @@
  (NameTmp :> PairFile("nothing", "nothing"))

\* the lists of distinct names of at most MaxFiles files
IsGlobResult(names) ==
  /\ Len(names) <= MaxFiles
  /\ \A i, j \in 1..Len(names) : i # j => names[i] # names[j]

Range(s) == { s[i] : i \in 1..Len(s) }

\* glob.glob(os.path.join(data_root, 'PIG_ATL06', '*.h5')): the files of the
\* directory, in any order
InitBatch ==
  /\ pc = "batch"
  /\ NoNumerics /\ NoPair
  /\ call = <<>> /\ ret = <<>>
  /\ \E k \in 0..MaxFiles :
       \E names \in [1..k -> DOMAIN Directory] :
         /\ IsGlobResult(names)
         /\ ATL06_files = names
         /\ h5files = Restrict(Directory, Range(names))
  /\ file_i = 1
  /\ D_dict = <<>>
  /\ stdout = <<>>

\* index=slice(0, -1, 25)
BatchIndex == Some(Slice(Some(0), Some(0 - 1), 25))

\* atl06_to_dict(file, '/gt2l', index=slice(0, -1, 25), epsg=3031)
BatchRead(file) == atl06_to_dict(h5files, file, "/gt2l", None, BatchIndex, Some(3031))

\* the exceptions the loop's  except KeyError  catches
BatchCaught == {Some("KeyError")}

\* one pass of the loop body: the read returns and the table is stored
BatchStore ==
  /\ pc = "batch" /\ file_i <= Len(ATL06_files)
  /\ LET file == ATL06_files[file_i] IN
       /\ ret' = BatchRead(file)
       /\ ret'.exc = None
       /\ D_dict' = Put(D_dict, file, ret'.D[1])
  /\ file_i' = file_i + 1
  /\ UNCHANGED <<pc, numvars, h5files, call, ATL06_files, stdout, pairvars>>

\* one pass of the loop body: the read raises KeyError, which is printed
BatchSkip ==
  /\ pc = "batch" /\ file_i <= Len(ATL06_files)
  /\ LET file == ATL06_files[file_i] IN
       /\ ret' = BatchRead(file)
       /\ ret'.exc \in BatchCaught
       /\ stdout' = Append(stdout, <<"file", file, "encountered error", ret'.exc[1]>>)
  /\ file_i' = file_i + 1
  /\ UNCHANGED <<pc, numvars, h5files, call, ATL06_files, D_dict, pairvars>>

\* one pass of the loop body: the read raises something else, which leaves
\* the loop and the cell
BatchRaise ==
  /\ pc = "batch" /\ file_i <= Len(ATL06_files)
  /\ ret' = BatchRead(ATL06_files[file_i])
  /\ ret'.exc # None /\ ret'.exc \notin BatchCaught
  /\ pc' = "raised"
  /\ UNCHANGED <<numvars, h5files, call, batchvars, pairvars>>

\* print(f"read {len(D_dict)} data files")
BatchPrintCount ==
  /\ pc = "batch" /\ file_i > Len(ATL06_files)
  /\ stdout' = Append(stdout, <<"read", Cardinality(DOMAIN D_dict), "data files">>)
  /\ pc' = "done"
  /\ UNCHANGED <<numvars, readvars, ATL06_files, file_i, D_dict, pairvars>>

NextBatch == BatchStore \/ BatchSkip \/ BatchRaise \/ BatchPrintCount

SpecBatch == InitBatch /\ [][NextBatch]_vars

---------------------------------------------------------------------------
(* The paired-beam cells: the read loop over cycles and files, and the     *)
(* lookup D_2r[filename] of the loops that plot the pairs                  *)

\* ATL06_2019_00270511_003_01.h5
Name002705 ==
  GranuleName(<<"2", "0", "1", "9">>, <<"0", "0", "2", "7">>, <<"0", "5">>,
              <<"1", "1">>, <<"0", "0", "3">>, <<"0", "1">>)

\* ATL06_tmp_002703_003.h5 and ATL06_tmp_002704_003.h5: names the pattern of
\* glob matches and file_re does not
NameTmp002703 ==
  <<"A", "T", "L", "0", "6", "_", "t", "m", "p", "_", "0", "0", "2", "7", "0", "3",
    "_", "0", "0", "3", ".", "h", "5">>

NameTmp002704 ==
  <<"A", "T", "L", "0", "6", "_", "t", "m", "p", "_", "0", "0", "2", "7", "0", "4",
    "_", "0", "0", "3", ".", "h", "5">>

\* the files the data directory can hold when the paired-beam cells run:
\* those of Directory, a granule that lacks fit_statistics of gt2r, and two
\* files whose names are no granule names, one complete and one without
\* h_li of gt2l
PairDirectory ==
  Directory @@
  (Name002705 :> PairFile("nothing", "fit_statistics")) @@
  (NameTmp002703 :> PairFile("nothing", "nothing")) @@
  (NameTmp002704 :> PairFile("h_li", "nothing"))

\* rgt="0027" and rgt="0469"
RgtVals == { <<"0", "0", "2", "7">>, <<"0", "4", "6", "9">> }

\* ['03','04','05','06','07']
Cycles == << <<"0", "3">>, <<"0", "4">>, <<"0", "5">>, <<"0", "6">>, <<"0", "7">> >>

\* the first position from p on at which s holds lit, or 0
FindFrom(s, lit, p) ==
  LET at == { q \in p..Len(s) : Lit(s, q, lit) }
  IN IF at = {} THEN 0 ELSE CHOOSE q \in at : \A o \in at : q <= o

\* fnmatch of s against  *ATL06_*_{rgt}{cycle}*_003*.h5 : the literal pieces
\* in this order, each after the one before, the last one at the end
GlobMatch(s, track, cycle) ==
  LET a == FindFrom(s, <<"A", "T", "L", "0", "6", "_">>, 1)
      b == IF a = 0 THEN 0 ELSE FindFrom(s, <<"_">> \o track \o cycle, a + 6)
      c == IF b = 0 THEN 0 ELSE FindFrom(s, <<"_", "0", "0", "3">>, b + 7)
  IN /\ c > 0
     /\ Len(s) - 2 >= c + 4
     /\ Lit(s, Len(s) - 2, <<".", "h", "5">>)

\* glob.glob(...): the names of the directory that match
Glob(track, cycle) == { s \in DOMAIN h5files : GlobMatch(s, track, cycle) }

InitPair ==
  /\ pc = "pair"
  /\ NoNumerics /\ NoBatch
  /\ call = <<>> /\ ret = <<>>
  /\ \E S \in SUBSET DOMAIN PairDirectory :
       /\ Cardinality(S) <= MaxFiles
       /\ h5files = Restrict(PairDirectory, S)
  /\ rgt \in RgtVals
  /\ cycle_i = 1
  /\ globbed = <<>> /\ glob_i = 0
  /\ D_2l = <<>> /\ D_2r = <<>>

\* atl06_to_dict(filename, beam, index=None, epsg=3031)
PairRead(filename, beam) == atl06_to_dict(h5files, filename, beam, None, None, Some(3031))

\* print(filename), which only the cell of track 0469 does
PrintName(filename) ==
  IF rgt = <<"0", "4", "6", "9">> THEN << <<filename>> >> ELSE <<>>

\* for filename in glob.glob(...): the names come in any order
PairGlob ==
  /\ pc = "pair" /\ cycle_i <= Len(Cycles)
  /\ LET found == Glob(rgt, Cycles[cycle_i]) IN
     \E names \in [1..Cardinality(found) -> found] :
       /\ \A i, j \in 1..Len(names) : i # j => names[i] # names[j]
       /\ globbed' = names
  /\ glob_i' = 1
  /\ pc' = "pairfile"
  /\ UNCHANGED <<numvars, readvars, batchvars, rgt, cycle_i, D_2l, D_2r>>

\* one pass of the body: both reads return and both tables are stored
PairStoreBoth ==
  /\ pc = "pairfile" /\ glob_i <= Len(globbed)
  /\ LET filename == globbed[glob_i]
         l == PairRead(filename, "/gt2l")
         r == PairRead(filename, "/gt2r")
     IN /\ l.exc = None /\ r.exc = None
        /\ D_2l' = Put(D_2l, filename, l.D[1])
        /\ D_2r' = Put(D_2r, filename, r.D[1])
        /\ ret' = r
        /\ stdout' = stdout \o PrintName(filename)
  /\ glob_i' = glob_i + 1
  /\ UNCHANGED <<pc, numvars, h5files, call, ATL06_files, file_i, D_dict,
                 rgt, cycle_i, globbed>>

\* one pass of the body: the read of the left beam raises, nothing is stored
PairLeftRaises ==
  /\ pc = "pairfile" /\ glob_i <= Len(globbed)
  /\ LET filename == globbed[glob_i]
         l == PairRead(filename, "/gt2l")
     IN /\ l.exc # None
        /\ ret' = l
        /\ stdout' = stdout \o PrintName(filename)
                        \o << <<"filename", filename, "exception", l.exc[1]>> >>
  /\ glob_i' = glob_i + 1
  /\ UNCHANGED <<pc, numvars, h5files, call, ATL06_files, file_i, D_dict,
                 rgt, cycle_i, globbed, D_2l, D_2r>>

\* one pass of the body: the left table is stored, then the read of the
\* right beam raises
PairRightRaises ==
  /\ pc = "pairfile" /\ glob_i <= Len(globbed)
  /\ LET filename == globbed[glob_i]
         l == PairRead(filename, "/gt2l")
         r == PairRead(filename, "/gt2r")
     IN /\ l.exc = None /\ r.exc # None
        /\ D_2l' = Put(D_2l, filename, l.D[1])
        /\ ret' = r
        /\ stdout' = stdout \o PrintName(filename)
                        \o << <<"filename", filename, "exception", r.exc[1]>> >>
  /\ glob_i' = glob_i + 1
  /\ UNCHANGED <<pc, numvars, h5files, call, ATL06_files, file_i, D_dict,
                 rgt, cycle_i, globbed, D_2r>>

\* the files of one cycle are done: on to the next cycle
PairNextCycle ==
  /\ pc = "pairfile" /\ glob_i > Len(globbed)
  /\ cycle_i' = cycle_i + 1
  /\ pc' = "pair"
  /\ UNCHANGED <<numvars, readvars, batchvars, rgt, globbed, glob_i, D_2l, D_2r>>

\* the list of cycles is done
PairLoopEnds ==
  /\ pc = "pair" /\ cycle_i > Len(Cycles)
  /\ pc' = "pairdone"
  /\ UNCHANGED <<numvars, readvars, batchvars, pairvars>>

\* for filename, Dl in D_2l.items(): ... Dr=D_2r[filename] ...: every lookup
\* finds its entry
PlotPairs ==
  /\ pc = "pairdone"
  /\ DOMAIN D_2l \subseteq DOMAIN D_2r
  /\ pc' = "plotted"
  /\ UNCHANGED <<numvars, readvars, batchvars, pairvars>>

\* for filename, Dl in D_2l.items(): ... Dr=D_2r[filename] ...: a lookup
\* raises KeyError
PlotPairsRaises ==
  /\ pc = "pairdone"
  /\ ~(DOMAIN D_2l \subseteq DOMAIN D_2r)
  /\ ret' = Raised(Some("KeyError"))
  /\ pc' = "raised"
  /\ UNCHANGED <<numvars, h5files, call, batchvars, pairvars>>

NextPair ==
  \/ PairGlob \/ PairStoreBoth \/ PairLeftRaises \/ PairRightRaises
  \/ PairNextCycle \/ PairLoopEnds \/ PlotPairs \/ PlotPairsRaises

SpecPair == InitPair /\ [][NextPair]_vars

---------------------------------------------------------------------------
(* The whole notebook: any one of the cells above *)

Init == InitScore \/ InitCorr \/ InitRead \/ InitBatch \/ InitPair

Next == NextScore \/ NextCorr \/ NextRead \/ NextBatch \/ NextPair

Spec == Init /\ [][Next]_vars

---------------------------------------------------------------------------
(* Properties of min_seg_difference *)

\* plain integer helpers used to state the properties
Abs(a) == IF a < 0 THEN 0 - a ELSE a

Min(a, b) == IF a < b THEN a ELSE b

NumAt(a, i) == ~IsNaN(a[i])

\* the segments that have both a predecessor and a successor
Interior(D) == 2..(Len(D.h_li) - 1)

\* every elevation and slope of segment i and of its two neighbours is a number
AllNumbersAround(D, i) ==
  \A j \in {i - 1, i, i + 1} : NumAt(D.h_li, j) /\ NumAt(D.dh_fit_dx, j)

C2_OwnEndpointsAgainstNeighbourCentres ==
  pc = "scored" =>
    \A m \in Interior(D6) :
      AllNumbersAround(D6, m) =>
        delta_h_seg[m] =
          Min(Abs(D6.h_li[m] - 20 * D6.dh_fit_dx[m] - D6.h_li[m - 1]),
              Abs(D6.h_li[m] + 20 * D6.dh_fit_dx[m] - D6.h_li[m + 1]))

\* the comparison of segment i with its neighbour j, in each reading of it:
\* i's centre against j's endpoint (what the passes compute), i's endpoint
\* against j's centre at 20 units, and at half the spacing
OneComparison(D, i, j) ==
  LET sgn == IF j > i THEN 1 ELSE 0 - 1 IN
  { Abs(D.h_li[i] - (D.h_li[j] - sgn * 20 * D.dh_fit_dx[j])),
    Abs(D.h_li[i] + sgn * 20 * D.dh_fit_dx[i] - D.h_li[j]),
    Abs(D.h_li[i] + sgn * (EndpointOffset \div 2) * D.dh_fit_dx[i] - D.h_li[j]) }

\* C3 as stated: in a table of two or more segments the score of the first
\* and of the last segment is the one comparison with its only neighbour,
\* not a zero left over from the initial value.
C3_EdgeScoreIsTheOneComparison ==
  LET n == Len(D6.h_li) IN
  (pc = "scored" /\ n >= 2) =>
    /\ (\A j \in {1, 2} : NumAt(D6.h_li, j) /\ NumAt(D6.dh_fit_dx, j)) =>
         delta_h_seg[1] \in OneComparison(D6, 1, 2)
    /\ (\A j \in {n - 1, n} : NumAt(D6.h_li, j) /\ NumAt(D6.dh_fit_dx, j)) =>
         delta_h_seg[n] \in OneComparison(D6, n, n - 1)

\* C8 as stated: a not-a-number elevation or along-track slope of segment i
\* makes segment i's own score and the score of each of its neighbours
\* not-a-number.  Stated for the tables in which segment i has a neighbour:
\* the score of a lone segment references no other segment.
C8_NaNReachesEveryScore ==
  (pc = "scored" /\ Len(D6.h_li) >= 2) =>
    \A i \in 1..Len(D6.h_li) :
      (IsNaN(D6.h_li[i]) \/ IsNaN(D6.dh_fit_dx[i])) =>
        \A j \in {i - 1, i, i + 1} \cap (1..Len(D6.h_li)) : IsNaN(delta_h_seg[j])

\* C16: for a table of exactly one segment min_seg_difference returns a
\* one-element result whose value is zero or not-a-number.
C16_OneSegmentNoConstraint ==
  (pc = "scored" /\ Len(D6.h_li) = 1) =>
    /\ Len(delta_h_seg) = 1
    /\ delta_h_seg[1] = 0 \/ IsNaN(delta_h_seg[1])

\* a table of one segment with a measured elevation and slope has been scored
C16_Witness ==
  /\ pc = "scored"
  /\ D6.h_li = <<100200>> /\ D6.dh_fit_dx = <<10>>
  /\ delta_h_seg = <<0>>

\* the table of the scenario: x_atc 0, 20, 40, elevations 100.0, 100.2, 100.5,
\* along-track slope 0.01 on every segment
IsScenarioTable(D) ==
  /\ D.x_atc = <<0, 20, 40>>
  /\ D.h_li = <<100000, 100200, 100500>>
  /\ D.dh_fit_dx = <<10, 10, 10>>

\* C17: for segments at 0, 20, 40 with elevations 100.0, 100.2, 100.5 and slope
\* 0.01 throughout, the score of the middle segment is below 0.05.
C17_ScenarioMiddleScoreSmall ==
  (pc = "scored" /\ IsScenarioTable(D6)) =>
    /\ ~IsNaN(delta_h_seg[2])
    /\ delta_h_seg[2] < 50

\* the table of the scenario has been scored
C17_Witness ==
  /\ pc = "scored" /\ IsScenarioTable(D6)
  /\ Len(delta_h_seg) = 3

\* C19: the scores depend on the order of the segments and on h_li and
\* dh_fit_dx only: the same table with any other along-track distances
\* x_atc gets the same scores.
C19_ScoresIgnoreXAtc ==
  pc = "scored" =>
    \A g \in XLayouts :
      min_seg_difference([D6 EXCEPT !.x_atc = XAtc(Len(D6.h_li), g)]) = delta_h_seg

\* a table with a data gap after its first segment has been scored, and the
\* score of the segment after the gap is a positive number
C19_Witness ==
  /\ pc = "scored"
  /\ Len(D6.h_li) = 3
  /\ D6.x_atc[2] - D6.x_atc[1] > 20
  /\ ~IsNaN(delta_h_seg[2]) /\ delta_h_seg[2] > 0

---------------------------------------------------------------------------
(* Properties of the cross-track slope correction *)

\* the segments of D that are plotted, and the place of segment i among them
GoodSegs(D) == { i \in 1..Len(D.h_li) : D.atl06_quality_summary[i] = 0 }

Rank(D, i) == Cardinality({ j \in GoodSegs(D) : j <= i })

\* the two (table, plotted line) pairs of the cell
Plotted == { <<Dl, ax2_l>>, <<Dr, ax2_r>> }

\* C4: the corrected elevation of every plotted segment is its raw elevation
\* minus its own across-track offset times its own across-track slope; for
\* offset 50, slope 0.002 and raw elevation 200.0 it is 199.9.
C4_CorrectedElevation ==
  pc = "corrected" =>
    \A p \in Plotted :
      /\ Len(p[2].y) = Cardinality(GoodSegs(p[1]))
      /\ \A i \in GoodSegs(p[1]) :
           /\ ( NumAt(p[1].h_li, i) /\ NumAt(p[1].y_atc, i) /\ NumAt(p[1].dh_fit_dy, i) ) =>
                p[2].y[Rank(p[1], i)] = p[1].h_li[i] - p[1].y_atc[i] * p[1].dh_fit_dy[i]
           /\ ( p[1].h_li[i] = 200000 /\ p[1].y_atc[i] = 50 /\ p[1].dh_fit_dy[i] = 2 ) =>
                p[2].y[Rank(p[1], i)] = 199900

\* the second segment of the left beam is the scenario's segment, the first
\* one is not plotted, and the line holds 199.9 for it
C4_Witness ==
  /\ pc = "corrected"
  /\ Len(Dl.h_li) >= 2
  /\ Dl.atl06_quality_summary[1] = 1 /\ Dl.atl06_quality_summary[2] = 0
  /\ Dl.h_li[2] = 200000 /\ Dl.y_atc[2] = 50 /\ Dl.dh_fit_dy[2] = 2
  /\ ax2_l.y[1] = 199900

\* C9: a not-a-number raw elevation, across-track offset or across-track
\* slope makes the corrected elevation of that segment not-a-number.
C9_NaNPropagatesToCorrected ==
  pc = "corrected" =>
    \A p \in Plotted :
      \A i \in GoodSegs(p[1]) :
        ( IsNaN(p[1].h_li[i]) \/ IsNaN(p[1].y_atc[i]) \/ IsNaN(p[1].dh_fit_dy[i]) ) =>
          IsNaN(p[2].y[Rank(p[1], i)])

\* a plotted segment with a number for elevation and offset and a
\* not-a-number slope has been corrected
C9_Witness ==
  /\ pc = "corrected"
  /\ \E i \in GoodSegs(Dl) :
       /\ NumAt(Dl.h_li, i) /\ NumAt(Dl.y_atc, i) /\ IsNaN(Dl.dh_fit_dy[i])
       /\ Dl.y_atc[i] # 0
       /\ IsNaN(ax2_l.y[Rank(Dl, i)])

\* C10 as stated: at across-track offset 0 the corrected elevation is the raw
\* elevation whatever the across-track slope is, a not-a-number slope included.
C10_ZeroOffsetAnySlope ==
  pc = "corrected" =>
    \A p \in Plotted :
      \A i \in GoodSegs(p[1]) :
        p[1].y_atc[i] = 0 => p[2].y[Rank(p[1], i)] = p[1].h_li[i]

\* C10 as amended: at across-track offset 0 the corrected elevation is the raw
\* elevation for every across-track slope that is a number.
C10_ZeroOffsetNumberSlope ==
  pc = "corrected" =>
    \A p \in Plotted :
      \A i \in GoodSegs(p[1]) :
        ( p[1].y_atc[i] = 0 /\ NumAt(p[1].dh_fit_dy, i) ) =>
          p[2].y[Rank(p[1], i)] = p[1].h_li[i]

\* a plotted segment at offset 0 with a non-zero slope and a number for
\* elevation has been corrected to its raw elevation
C10_Witness ==
  /\ pc = "corrected"
  /\ \E i \in GoodSegs(Dl) :
       /\ Dl.y_atc[i] = 0 /\ Dl.dh_fit_dy[i] = 2 /\ NumAt(Dl.h_li, i)
       /\ ax2_l.y[Rank(Dl, i)] = Dl.h_li[i]

---------------------------------------------------------------------------
(* Properties of atl06_to_dict and of the batch read loop *)

\* the field_dict a call uses
Requested(fd) == FieldList(IF fd = None THEN DefaultFieldDict ELSE fd[1])

\* the positions (from 1) of a dataset of n entries that index selects
Selected(n, index) ==
  IF index = None THEN 1..n
  ELSE LET sl == index[1]
           lo == IF sl.start = None THEN 0
                 ELSE IF sl.start[1] < 0 THEN sl.start[1] + n ELSE sl.start[1]
           hi == IF sl.stop = None THEN n
                 ELSE IF sl.stop[1] < 0 THEN sl.stop[1] + n ELSE sl.stop[1]
       IN { p \in 1..n : p - 1 >= lo /\ p - 1 < hi /\ (p - 1 - lo) % sl.step = 0 }

\* the place of position p among the selected ones
PlaceIn(S, p) == Cardinality({ o \in S : o <= p })

\* nothing but fill values could stand in the way of the call: the file is
\* an HDF5 file that holds every requested dataset, the coordinates to
\* project are requested, and the name is a granule name
NothingElseFails(c) ==
  /\ h5files[c.filename].hdf5
  /\ \A f \in Range(Requested(c.field_dict)) :
       DsName(c.beam, f[1], f[2]) \in DOMAIN h5files[c.filename].ds
  /\ c.epsg # None =>
       \A ds \in {"longitude", "latitude"} :
         \E f \in Range(Requested(c.field_dict)) : f[2] = ds
  /\ file_re_search(c.filename) # None

\* C5: the column of every requested field that declares a fill sentinel
\* holds not-a-number exactly where the raw value equals the sentinel and the
\* raw value elsewhere, and fill-flagged values never make the read fail.
C5_FillBecomesNaN ==
  pc = "returned" =>
    /\ NothingElseFails(call) => ret.exc = None
    /\ ret.exc = None =>
         \A f \in Range(Requested(call.field_dict)) :
           LET dset == h5files[call.filename].ds[DsName(call.beam, f[1], f[2])]
               S == Selected(Len(dset.data), call.index)
               col == ret.D[1][f[2]].data
           IN "_FillValue" \in DOMAIN dset.attrs =>
                /\ Len(col) = Cardinality(S)
                /\ \A p \in S :
                     col[PlaceIn(S, p)] =
                       IF dset.data[p] = dset.attrs["_FillValue"] THEN NaN
                       ELSE dset.data[p]

\* a read has returned a table whose h_li declares a fill sentinel and holds
\* it at one selected position and a measured value at another
C5_Witness ==
  /\ pc = "returned" /\ ret.exc = None
  /\ LET dset == h5files[call.filename].ds[DsName(call.beam, None, "h_li")]
         col == ret.D[1]["h_li"].data
     IN /\ "_FillValue" \in DOMAIN dset.attrs
        /\ Len(col) = 2
        /\ \E i, j \in 1..2 : IsNaN(col[i]) /\ col[j] = 100000

\* the dataset of the file that the call reads for the requested field f
RawField(c, f) == h5files[c.filename].ds[DsName(c.beam, f[1], f[2])]

\* no entry of a requested field equals the fill sentinel its dataset declares
NoFillFlagged(c) ==
  \A f \in Range(Requested(c.field_dict)) :
    LET dset == RawField(c, f) IN
    "_FillValue" \in DOMAIN dset.attrs =>
      \A i \in 1..Len(dset.data) : dset.data[i] # dset.attrs["_FillValue"]

\* C11: a read with index unset and epsg unset of a beam none of whose
\* requested fields holds a fill-flagged entry returns, for every requested
\* field, the raw values, as many and in the same order.
C11_RoundTrip ==
  ( /\ pc = "returned" /\ ret.exc = None
    /\ call.index = None /\ call.epsg = None
    /\ NoFillFlagged(call) ) =>
    \A f \in Range(Requested(call.field_dict)) :
      LET raw == RawField(call, f).data
          col == ret.D[1][f[2]].data
      IN /\ Len(col) = Len(raw)
         /\ \A i \in 1..Len(raw) : col[i] = raw[i]

\* a read of several fields of a two-segment beam with two different
\* elevations, none fill-flagged, has returned
C11_Witness ==
  /\ pc = "returned" /\ ret.exc = None
  /\ call.index = None /\ call.epsg = None
  /\ call.field_dict = Some(CoordFieldDict)
  /\ NoFillFlagged(call)
  /\ "_FillValue" \in DOMAIN RawField(call, <<None, "h_li">>).attrs
  /\ RawField(call, <<None, "h_li">>).data = <<200000, 100000>>

\* the floating-point types
FloatTypes == {"float32", "float64"}

\* C12 as stated: every requested field of the returned table is in a
\* floating-point representation, whether or not its dataset declares a fill
\* sentinel or holds fill-flagged entries.
C12_EveryFieldIsFloat ==
  (pc = "returned" /\ ret.exc = None) =>
    \A f \in Range(Requested(call.field_dict)) :
      ret.D[1][f[2]].dtype \in FloatTypes

\* C12 as amended: a requested field whose dataset declares a fill sentinel
\* is returned as float64, whether or not it holds fill-flagged entries; a
\* field whose dataset declares none is returned in its raw type.
C12_FloatWhereSentinelDeclared ==
  (pc = "returned" /\ ret.exc = None) =>
    \A f \in Range(Requested(call.field_dict)) :
      LET dset == RawField(call, f) IN
      ret.D[1][f[2]].dtype =
        IF "_FillValue" \in DOMAIN dset.attrs THEN "float64" ELSE dset.dtype

\* a read has returned h_li, a 32-bit float which declares a sentinel and
\* holds no fill-flagged entry, as float64, and atl06_quality_summary, an
\* 8-bit integer which declares none, as an 8-bit integer
C12_Witness ==
  /\ pc = "returned" /\ ret.exc = None
  /\ call.field_dict = None
  /\ LET h == RawField(call, <<None, "h_li">>)
         q == RawField(call, <<None, "atl06_quality_summary">>)
     IN /\ "_FillValue" \in DOMAIN h.attrs /\ h.dtype = "float32"
        /\ h.data = <<100000, 200000>>
        /\ ret.D[1]["h_li"].dtype = "float64"
        /\ "_FillValue" \notin DOMAIN q.attrs /\ q.dtype = "int8"
        /\ ret.D[1]["atl06_quality_summary"].dtype = "int8"

\* C13: with an EPSG code the returned table has the columns x and y, as long
\* as latitude and in its order, (x[i], y[i]) being the projection of
\* (longitude[i], latitude[i]); without a code it has neither column.
C13_ProjectedColumns ==
  (pc = "returned" /\ ret.exc = None) =>
    LET D == ret.D[1] IN
    IF call.epsg # None
    THEN /\ {"x", "y"} \subseteq DOMAIN D
         /\ Len(D["x"].data) = Len(D["latitude"].data)
         /\ Len(D["y"].data) = Len(D["latitude"].data)
         /\ \A i \in 1..Len(D["latitude"].data) :
              /\ D["x"].data[i] =
                   <<"x", call.epsg[1], D["longitude"].data[i], D["latitude"].data[i]>>
              /\ D["y"].data[i] =
                   <<"y", call.epsg[1], D["longitude"].data[i], D["latitude"].data[i]>>
    ELSE "x" \notin DOMAIN D /\ "y" \notin DOMAIN D

\* a read of a two-segment beam with an EPSG code has returned
C13_Witness ==
  /\ pc = "returned" /\ ret.exc = None
  /\ call.epsg = Some(3031) /\ call.index = None
  /\ Len(ret.D[1]["latitude"].data) = 2
  /\ Len(ret.D[1]["x"].data) = 2

\* the value of a decimal digit, and the place of the k-th "_" of a name
DigitOf(c) ==
  CHOOSE v \in 0..9 : <<"0", "1", "2", "3", "4", "5", "6", "7", "8", "9">>[v + 1] = c

UnderscoreAt(s, k) ==
  CHOOSE p \in 1..Len(s) :
    s[p] = "_" /\ Cardinality({ o \in 1..(p - 1) : s[o] = "_" }) = k - 1

\* the number written in the four characters after the second "_" of a
\* granule name, and in the two characters that follow them
TrackOf(s) ==
  LET p == UnderscoreAt(s, 2) IN
  1000 * DigitOf(s[p + 1]) + 100 * DigitOf(s[p + 2]) + 10 * DigitOf(s[p + 3])
    + DigitOf(s[p + 4])

CycleOf(s) ==
  LET p == UnderscoreAt(s, 2) IN 10 * DigitOf(s[p + 5]) + DigitOf(s[p + 6])

\* C14: every returned table carries the track and the cycle written in the
\* four-digit and the following two-digit field of the file name, as
\* integers, and the beam the call was given.
C14_Provenance ==
  (pc = "returned" /\ ret.exc = None) =>
    /\ ret.D[1]["rgt"] = TrackOf(call.filename)
    /\ ret.D[1]["cycle"] = CycleOf(call.filename)
    /\ ret.D[1]["beam"] = call.beam

\* a read of beam gt2r of ATL06_2019_04690511_003_01.h5 has returned
C14_Witness ==
  /\ pc = "returned" /\ ret.exc = None
  /\ call.filename = Name046905 /\ call.beam = "/gt2r"
  /\ ret.D[1]["rgt"] = 469 /\ ret.D[1]["cycle"] = 5 /\ ret.D[1]["beam"] = "/gt2r"

\* the default datasets of beam /gt2l
BatchPaths == { DsName("/gt2l", f[1], f[2]) : f \in Range(FieldList(DefaultFieldDict)) }

\* file is an HDF5 file that lacks a dataset the batch loop requests
LacksField(file) ==
  h5files[file].hdf5 /\ ~(BatchPaths \subseteq DOMAIN h5files[file].ds)

\* C6: when a requested field or group is absent for the requested beam,
\* atl06_to_dict fails with a missing-field error and returns no table, and
\* the batch loop goes past the file and stores no entry for it in D_dict.
C6_MissingFieldIsSkipped ==
  pc \in {"batch", "raised", "done"} =>
    \A k \in 1..Len(ATL06_files) :
      LacksField(ATL06_files[k]) =>
        /\ BatchRead(ATL06_files[k]) = Raised(Some("KeyError"))
        /\ ATL06_files[k] \notin DOMAIN D_dict
        /\ ~(pc = "raised" /\ file_i = k)
        /\ k < file_i =>
             \E o \in 1..Len(stdout) : stdout[o][1] = "file" /\ stdout[o][2] = ATL06_files[k]

\* the loop has ended, it went past a file that lacks a field, and stored a
\* file that came after it
C6_Witness ==
  /\ pc = "done"
  /\ \E k, l \in 1..Len(ATL06_files) :
       /\ k < l
       /\ LacksField(ATL06_files[k])
       /\ DsName("/gt2l", None, "h_li") \in DOMAIN h5files[ATL06_files[k]].ds
       /\ ATL06_files[l] \in DOMAIN D_dict

\* C7 as stated: a read that fails, for whatever reason, never stops the
\* batch loop: every file is read and the loop ends with D_dict holding
\* exactly the files whose read succeeded.
C7_FailedReadNeverStopsLoop ==
  /\ pc # "raised"
  /\ pc = "done" =>
       DOMAIN D_dict = { f \in Range(ATL06_files) : BatchRead(f).exc = None }

\* the value the reader gives for the raw entry at position p (from 0) of a
\* dataset: not-a-number for the declared fill sentinel, else the raw value
Cooked(dset, p) ==
  IF "_FillValue" \in DOMAIN dset.attrs /\ dset.data[p + 1] = dset.attrs["_FillValue"]
  THEN NaN ELSE dset.data[p + 1]

\* C21 as stated: the table the batch read stores for a beam of N segments
\* holds, for every requested field, exactly the entries at the positions
\* 0, 25, 50, ... below N, in their order.
C21_Every25thPoint ==
  \A file \in DOMAIN D_dict :
    \A f \in Range(FieldList(DefaultFieldDict)) :
      LET dset == h5files[file].ds[DsName("/gt2l", f[1], f[2])]
          N == Len(dset.data)
          every25th == { p \in 0..(N - 1) : p % 25 = 0 }
          col == D_dict[file][f[2]].data
      IN /\ Len(col) = Cardinality(every25th)
         /\ \A k \in 1..Len(col) : col[k] = Cooked(dset, 25 * (k - 1))

---------------------------------------------------------------------------
(* Properties of the paired-beam cells *)

\* the file holds every default dataset of the beam
HoldsBeam(file, beam) ==
  /\ h5files[file].hdf5
  /\ \A f \in Range(FieldList(DefaultFieldDict)) :
       DsName(beam, f[1], f[2]) \in DOMAIN h5files[file].ds

\* the files the whole loop comes to, and those of them both of whose reads
\* return
AllGlobbed == UNION { Glob(rgt, Cycles[k]) : k \in 1..Len(Cycles) }

BothReadable ==
  { f \in AllGlobbed :
      PairRead(f, "/gt2l").exc = None /\ PairRead(f, "/gt2r").exc = None }

C20_SameFileNames ==
  /\ pc = "pairdone" => DOMAIN D_2l = DOMAIN D_2r
  /\ pc # "raised"

---------------------------------------------------------------------------
(* Properties of the notebook as a whole *)

\* what a read of file f alone, in a directory that holds nothing else,
\* returns
ReadAlone(f, beam, index) ==
  atl06_to_dict((f :> PairDirectory[f]), f, beam, None, index, Some(3031)).D[1]

\* the tables of T that are also in the next state's U are the same there
Kept(T, U) == \A f \in DOMAIN T : f \in DOMAIN U /\ U[f] = T[f]

====
